---------------------------- MODULE Spec2Model ----------------------------
(***************************************************************************)
(* Model of the log-capture core of conmon-rs:                             *)
(*   server/src/json_logger.rs    JsonLogger  (structured-JSON driver)     *)
(*   server/src/container_log.rs  ContainerLog (multiplexer over drivers)  *)
(*                                                                         *)
(* A driver's file is a tokio BufWriter<File>.  The BufWriter keeps what   *)
(* write_all hands it in memory until its buffer would overflow or flush   *)
(* is called; only then do the bytes reach the file at the path.  Dropping *)
(* a BufWriter discards its buffer.  File::sync_all acts on the inner File *)
(* and does not touch the BufWriter's buffer.  Bytes handed to the inner   *)
(* File are taken to be in the file at once.                               *)
(***************************************************************************)
EXTENDS Integers, Sequences, FiniteSets, TLC

\* ------------------------------------------------------------------ bounds
MaxStreamLen == 2      \* longest byte stream handed to one write call
MaxOps       == 3      \* operations started in one behaviour, one driver or none
MaxFanOps    == 2      \* operations started in one behaviour, several drivers
MaxFaults    == 1      \* I/O failures injected in one behaviour
MaxDrivers   == 2      \* longest configuration list
BufCapacity  == 150    \* capacity of the BufWriter (tokio's is 8192; scaled)

\* --------------------------------------------------------------- alphabet
NL    == "\n"
Bytes == {"a", " ", NL}
IsWhitespace(b) == b \in {" ", NL}

Paths   == {"p1", "p2"}
Callers == {"stdout", "stderr", "ctl"}

\* Option<T>: None is the empty sequence, Some(x) is <<x>>.
None    == <<>>
Some(x) == <<x>>
IsSome(o) == o # <<>>
Unwrap(o) == o[1]

RECURSIVE SeqsUpTo(_, _)
SeqsUpTo(S, n) ==
    IF n = 0 THEN {<<>>}
    ELSE LET shorter == SeqsUpTo(S, n - 1)
         IN  shorter \cup {Append(s, b) : s \in {t \in shorter : Len(t) = n - 1}, b \in S}

Streams == SeqsUpTo(Bytes, MaxStreamLen)

\* ------------------------------------------------------ pure functions
\* str::trim: strip leading and trailing whitespace.
RECURSIVE TrimStart(_)
TrimStart(s) ==
    IF s # <<>> /\ IsWhitespace(Head(s)) THEN TrimStart(Tail(s)) ELSE s

RECURSIVE TrimEnd(_)
TrimEnd(s) ==
    IF s # <<>> /\ IsWhitespace(s[Len(s)])
    THEN TrimEnd(SubSeq(s, 1, Len(s) - 1)) ELSE s

Trim(s) == TrimEnd(TrimStart(s))

\* read_until(b'\n'): the number of bytes up to and including the first
\* newline, or all that is left when there is none (0 at end of stream).
RECURSIVE ReadUntil(_)
ReadUntil(bytes) ==
    IF bytes = <<>> THEN 0
    ELSE IF Head(bytes) = NL THEN 1
    ELSE 1 + ReadUntil(Tail(bytes))

\* Length of the compact JSON text of a log entry with an empty message and
\* an empty timestamp: {"message":"","pipe":"stdout","timestamp":""}
JsonOverhead == 45
\* format!("{:?}", SystemTime::now()) is
\* "SystemTime { tv_sec: <10 digits>, tv_nsec: <1 to 9 digits> }".
\* The model takes the longest.
TimestampLens == {53}

\* match pipe { Pipe::StdOut => "stdout", Pipe::StdErr => "stderr" }
PipeName(pipe) == IF pipe = "StdOut" THEN "stdout" ELSE "stderr"

\* One thing handed to write_all: the JSON text of a log entry, or the
\* newline that follows it.  len is its length in bytes.
\* A log entry whose message is the line as read, not trimmed.
LogEntryUntrimmed(pipe, line, ts) ==
    [kind |-> "rec", pipe |-> PipeName(pipe), message |-> line,
     len |-> JsonOverhead + Len(line) + ts]
LogEntry(pipe, line, ts) ==
    [kind |-> "rec", pipe |-> PipeName(pipe), message |-> Trim(line),
     len |-> JsonOverhead + Len(Trim(line)) + ts]
Newline == [kind |-> "nl", pipe |-> "", message |-> <<>>, len |-> 1]

RECURSIVE TotalLen(_)
TotalLen(items) ==
    IF items = <<>> THEN 0 ELSE Head(items).len + TotalLen(Tail(items))


\* ------------------------------------------------------------ filesystem
\* The file at a path: whether it exists, what it holds, and whether a
\* write through a handle whose offset was not the end of the file has
\* left it something else than the items one handle wrote in order.
NoFile  == [exists |-> FALSE, data |-> <<>>, clobbered |-> FALSE]
OldData == <<[kind |-> "rec", pipe |-> "stdout", message |-> <<"a">>,
              len |-> JsonOverhead + 1 + 53], Newline>>
Truncated == [exists |-> TRUE, data |-> <<>>, clobbered |-> FALSE]

\* An open without truncate(true).
OpenKeep(dk, path) == [dk EXCEPT ![path].exists = TRUE]

\* OpenOptions::new().create(true).read(true).truncate(true).write(true).open
OpenTruncate(dk, path) == [dk EXCEPT ![path] = Truncated]

\* A write of items through a handle that has written pos bytes so far.
FileWrite(dk, path, pos, items) ==
    IF items = <<>> THEN dk
    ELSE IF dk[path].exists /\ ~dk[path].clobbered /\ pos = TotalLen(dk[path].data)
    THEN [dk EXCEPT ![path].data = @ \o items]
    ELSE [dk EXCEPT ![path].exists = TRUE, ![path].clobbered = TRUE]

\* ------------------------------------------------------------ BufWriter
\* buf: items held in memory; flushed: items this handle has put in the file.
NewWriter == [buf |-> <<>>, flushed |-> <<>>]
Pos(w) == TotalLen(w.flushed)

FlushBuf(w) == [buf |-> <<>>, flushed |-> w.flushed \o w.buf]

\* BufWriter::write_all(item).  fails: the write to the inner file fails.
BufWriteAll(w, path, dk, item, fails) ==
    LET overflow == TotalLen(w.buf) + item.len > BufCapacity
        direct   == item.len >= BufCapacity
        w1 == IF overflow THEN FlushBuf(w) ELSE w
        d1 == IF overflow THEN FileWrite(dk, path, Pos(w), w.buf) ELSE dk
    IN  IF (overflow \/ direct) /\ fails
        THEN [ok |-> FALSE, failed |-> TRUE, w |-> w, disk |-> dk]
        ELSE IF direct
        THEN [ok |-> TRUE, failed |-> FALSE,
              w |-> [w1 EXCEPT !.flushed = Append(@, item)],
              disk |-> FileWrite(d1, path, Pos(w1), <<item>>)]
        ELSE [ok |-> TRUE, failed |-> FALSE,
              w |-> [w1 EXCEPT !.buf = Append(@, item)], disk |-> d1]

\* ------------------------------------------------------------ JsonLogger
\* JsonLogger::new
JsonNew(path, max_log_size) ==
    [path |-> path, file |-> None, max_log_size |-> max_log_size,
     bytes_written |-> 0]

\* Results of the driver operations: res is "ok", "uninit" (the
\* ERR_UNINITIALIZED error) or "io"; failed says an injected I/O failure
\* was used.  opened says that the file was opened anew, erased is what
\* the file held before that, dropped what the replaced BufWriter held.
Outcome(res, failed, drv, dk) ==
    [res |-> res, failed |-> failed, drv |-> drv, disk |-> dk,
     opened |-> FALSE, erased |-> <<>>, dropped |-> <<>>]

\* JsonLogger::open
JsonOpen(path, dk, openFails) ==
    IF openFails THEN [ok |-> FALSE, disk |-> dk]
    ELSE [ok |-> TRUE, disk |-> OpenTruncate(dk, path)]

\* An init that gives up the handle it has before it opens the file.
JsonInitTakesFirst(drv, dk, openFails) ==
    LET o == JsonOpen(drv.path, dk, openFails)
    IN  IF ~o.ok THEN Outcome("io", TRUE, [drv EXCEPT !.file = None], dk)
        ELSE [Outcome("ok", FALSE, [drv EXCEPT !.file = Some(NewWriter)], o.disk)
                EXCEPT !.opened = TRUE,
                       !.erased = dk[drv.path].data,
                       !.dropped = IF IsSome(drv.file) THEN Unwrap(drv.file).buf
                                   ELSE <<>>]

\* JsonLogger::init
JsonInit(drv, dk, openFails) ==
    LET o == JsonOpen(drv.path, dk, openFails)
    IN  IF ~o.ok THEN Outcome("io", TRUE, drv, dk)
        ELSE [Outcome("ok", FALSE, [drv EXCEPT !.file = Some(NewWriter)], o.disk)
                EXCEPT !.opened = TRUE,
                       !.erased = dk[drv.path].data,
                       !.dropped = IF IsSome(drv.file) THEN Unwrap(drv.file).buf
                                   ELSE <<>>]

\* JsonLogger::reopen
JsonReopen(drv, dk, syncFails, openFails) ==
    IF ~IsSome(drv.file) THEN Outcome("uninit", FALSE, drv, dk)
    ELSE IF syncFails THEN Outcome("io", TRUE, drv, dk)
    ELSE JsonInit(drv, dk, openFails)

\* JsonLogger::flush
JsonFlush(drv, dk, writeFails) ==
    IF ~IsSome(drv.file) THEN Outcome("uninit", FALSE, drv, dk)
    ELSE LET w == Unwrap(drv.file)
         IN  IF w.buf = <<>> THEN Outcome("ok", FALSE, drv, dk)
             ELSE IF writeFails THEN Outcome("io", TRUE, drv, dk)
             ELSE Outcome("ok", FALSE, [drv EXCEPT !.file = Some(FlushBuf(w))],
                          FileWrite(dk, drv.path, Pos(w), w.buf))

\* A size check made before the entry is counted.
JsonAccountCheckFirst(drv, dk, entry, syncFails, openFails) ==
    IF IsSome(drv.max_log_size)
       /\ drv.bytes_written > Unwrap(drv.max_log_size)
    THEN LET r == JsonReopen(drv, dk, syncFails, openFails)
         IN  IF r.res # "ok" THEN r
             ELSE [r EXCEPT !.drv.bytes_written = entry.len]
    ELSE Outcome("ok", FALSE, [drv EXCEPT !.bytes_written = @ + entry.len], dk)

\* A size check that reopens already at the limit (>= for >).
JsonAccountAtLimit(drv, dk, entry, syncFails, openFails) ==
    LET counted == [drv EXCEPT !.bytes_written = @ + entry.len]
    IN  IF IsSome(counted.max_log_size)
           /\ counted.bytes_written >= Unwrap(counted.max_log_size)
        THEN LET r == JsonReopen(counted, dk, syncFails, openFails)
             IN  IF r.res # "ok" THEN r
                 ELSE [r EXCEPT !.drv.bytes_written = 0]
        ELSE Outcome("ok", FALSE, counted, dk)

\* JsonLogger::write, one turn of the loop up to the file write: the entry
\* is counted, and the file reopened when the count exceeds the limit.
\* res "ok" here means that the turn goes on to write the entry.
JsonAccount(drv, dk, entry, syncFails, openFails) ==
    LET counted == [drv EXCEPT !.bytes_written = @ + entry.len]
    IN  IF IsSome(counted.max_log_size)
           /\ counted.bytes_written > Unwrap(counted.max_log_size)
        THEN LET r == JsonReopen(counted, dk, syncFails, openFails)
             IN  IF r.res # "ok" THEN r
                 ELSE [r EXCEPT !.drv.bytes_written = 0]
        ELSE Outcome("ok", FALSE, counted, dk)

\* A file write that does nothing, and says so, when there is no file.
JsonPersistUnchecked(drv, dk, entry, entryFails, newlineFails) ==
    IF ~IsSome(drv.file) THEN Outcome("ok", FALSE, drv, dk)
    ELSE LET a == BufWriteAll(Unwrap(drv.file), drv.path, dk, entry, entryFails)
             b == BufWriteAll(a.w, drv.path, a.disk, Newline, newlineFails)
         IN  IF ~a.ok \/ ~b.ok THEN Outcome("io", TRUE, drv, dk)
             ELSE Outcome("ok", FALSE, [drv EXCEPT !.file = Some(b.w)], b.disk)

\* JsonLogger::write, the rest of the turn: the entry and a newline are
\* written to the file.
JsonPersist(drv, dk, entry, entryFails, newlineFails) ==
    IF ~IsSome(drv.file) THEN Outcome("uninit", FALSE, drv, dk)
    ELSE LET a == BufWriteAll(Unwrap(drv.file), drv.path, dk, entry, entryFails)
         IN  IF ~a.ok THEN Outcome("io", TRUE, drv, dk)
             ELSE LET b == BufWriteAll(a.w, drv.path, a.disk, Newline, newlineFails)
                  IN  IF ~b.ok
                      THEN Outcome("io", TRUE, [drv EXCEPT !.file = Some(a.w)], a.disk)
                      ELSE Outcome("ok", FALSE, [drv EXCEPT !.file = Some(b.w)], b.disk)

\* -------------------------------------------------------- construction
KnownTypes == {"Json"}
Types      == KnownTypes \cup {"NotInSchema"}
MaxSizes   == {0, 98, 197}
Entries    == [type : Types, path : Paths, max_size : MaxSizes]
Readers    == SeqsUpTo(Entries, MaxDrivers)

\* A construction that takes max_size 0 for a limit of 0 bytes.
FromZeroIsLimit(reader) ==
    IF \E i \in 1..Len(reader) : reader[i].type \notin KnownTypes
    THEN [ok |-> FALSE, drivers |-> <<>>]
    ELSE [ok |-> TRUE,
          drivers |-> [i \in 1..Len(reader) |->
              JsonNew(reader[i].path, Some(reader[i].max_size))]]

\* A construction that leaves out the entries whose type it does not know.
FromSkipUnknown(reader) ==
    LET known == SelectSeq(reader, LAMBDA x : x.type \in KnownTypes)
    IN  [ok |-> TRUE,
         drivers |-> [i \in 1..Len(known) |->
             JsonNew(known[i].path,
                     IF known[i].max_size > 0 THEN Some(known[i].max_size)
                     ELSE None)]]

\* ContainerLog::from
From(reader) ==
    IF \E i \in 1..Len(reader) : reader[i].type \notin KnownTypes
    THEN [ok |-> FALSE, drivers |-> <<>>]
    ELSE [ok |-> TRUE,
          drivers |-> [i \in 1..Len(reader) |->
              JsonNew(reader[i].path,
                      IF reader[i].max_size > 0 THEN Some(reader[i].max_size)
                      ELSE None)]]

\* ------------------------------------------- vocabulary of the properties
\* What a stream is expected to give, stated on the stream as a whole: its
\* newline-terminated lines, each without leading and trailing whitespace.
NewlineAt(stream) == {i \in 1..Len(stream) : stream[i] = NL}
LineCount(stream) == Cardinality(NewlineAt(stream))
KthNewline(stream, k) ==
    CHOOSE i \in NewlineAt(stream) :
        Cardinality({j \in NewlineAt(stream) : j <= i}) = k
LineText(stream, k) ==
    SubSeq(stream, IF k = 1 THEN 1 ELSE KthNewline(stream, k - 1) + 1,
           KthNewline(stream, k) - 1)
Stripped(text) ==
    LET keep == {i \in 1..Len(text) : ~IsWhitespace(text[i])}
    IN  IF keep = {} THEN <<>>
        ELSE SubSeq(text, CHOOSE i \in keep : \A j \in keep : i <= j,
                          CHOOSE i \in keep : \A j \in keep : j <= i)
Channel(pipe) == CASE pipe = "StdOut" -> "stdout" [] pipe = "StdErr" -> "stderr"
Terminated(stream) == stream = <<>> \/ stream[Len(stream)] = NL
CompleteLines(pipe, stream) ==
    [k \in 1..LineCount(stream) |->
        [pipe |-> pipe, message |-> Stripped(LineText(stream, k))]]
\* The bytes after the last newline.
Remainder(stream) ==
    SubSeq(stream,
           IF NewlineAt(stream) = {} THEN 1
           ELSE KthNewline(stream, LineCount(stream)) + 1,
           Len(stream))
\* The lines and, when the stream does not end in a newline, the remainder.
Segments(pipe, stream) ==
    CompleteLines(pipe, stream) \o
    (IF Remainder(stream) = <<>> THEN <<>>
     ELSE <<[pipe |-> pipe, message |-> Stripped(Remainder(stream))]>>)

\* ----------------------------------------------------------------- state
VARIABLES
    reader,    \* the configuration list handed to ContainerLog::from
    built,     \* whether ContainerLog::from returned a multiplexer
    drivers,   \* ContainerLog.drivers
    disk,      \* the file at each path
    lock,      \* the RwLock of SharedContainerLog: the caller holding it
    op,        \* per caller, the multiplexer operation it is running
    ret,       \* what the last multiplexer operation returned, and to whom
    flushRet,  \* what the last JsonLogger::flush returned
    started,   \* operations started so far
    faults,    \* I/O failures injected so far
    ev,        \* history: what the last step of a driver did, while the
               \* operation it belongs to has not returned
    log        \* history: per driver, what the successful writes since its
               \* last successful init or reopen are expected to have given

vars == <<reader, built, drivers, disk, lock, op, ret, flushRet, started,
          faults, ev, log>>

N == Len(drivers)
Drivers == 1..N
Budget == IF N <= 1 THEN MaxOps ELSE MaxFanOps

Idle == [kind |-> "idle", pipe |-> "", stream |-> <<>>, tasks |-> <<>>]
NoRet == [caller |-> "", kind |-> "none", res |-> "ok", driver |-> 0,
          results |-> <<>>]
NoEvent == [driver |-> 0, op |-> "none", res |-> "ok", opened |-> FALSE,
            erased |-> 0, dropped |-> 0, touched |-> FALSE]
Dirty == [expect |-> <<>>, clean |-> FALSE]
Clean == [expect |-> <<>>, clean |-> TRUE]

\* One future of the join_all: pc is where it stands ("init", "reopen",
\* "read" at the head of the write loop, "persist" before the file write,
\* "done"), rest what its clone of the stream still holds, entry the log
\* entry it is about to write, res its result once done.
Task(pc, stream) == [pc |-> pc, rest |-> stream, entry |-> None, res |-> "pending"]
Done(t, res) == [t EXCEPT !.pc = "done", !.res = res, !.entry = None]

\* One cursor shared by the futures: the first reads the stream, the others
\* find it consumed.
SharedCursor(stream, d) == IF d = 1 THEN stream ELSE <<>>

\* bytes.clone(): what the future of driver d gets to read.
Clone(stream, d) == stream

InitialDisk ==
    [p \in Paths |-> IF p = "p1"
                     THEN [exists |-> TRUE, data |-> OldData, clobbered |-> FALSE]
                     ELSE NoFile]

Init ==
    /\ reader \in Readers
    /\ built = From(reader).ok
    /\ drivers = From(reader).drivers
    /\ disk = InitialDisk
    /\ lock = None
    /\ op = [c \in Callers |-> Idle]
    /\ ret = NoRet
    /\ flushRet = None
    /\ started = 0
    /\ faults = 0
    /\ ev = NoEvent
    /\ log = [d \in 1..Len(From(reader).drivers) |-> Dirty]

\* ------------------------------------------------------------ multiplexer
\* Callers that do not wait for the lock.
NeverHeld == TRUE

\* The write half of the RwLock can be taken.
LockFree == lock = None

\* A caller takes the lock and starts init, reopen or write: one future per
\* driver, each write future with its own clone of the stream.
Begin(c, kind, pipe, stream) ==
    /\ built
    /\ op[c].kind = "idle"
    /\ LockFree
    /\ started < Budget
    /\ lock' = Some(c)
    /\ op' = [op EXCEPT ![c] =
                [kind |-> kind, pipe |-> pipe, stream |-> stream,
                 tasks |-> [d \in Drivers |->
                              Task(IF kind = "write" THEN "read" ELSE kind,
                                   Clone(stream, d))]]]
    /\ started' = started + 1
    /\ ev' = NoEvent
    /\ UNCHANGED <<reader, built, drivers, disk, ret, flushRet, faults, log>>

BeginInit == Begin("ctl", "init", "", <<>>)
BeginReopen == Begin("ctl", "reopen", "", <<>>)
\* The stdout call site writes with Pipe::StdOut, the stderr one with
\* Pipe::StdErr.
BeginWrite(c) ==
    \E stream \in Streams :
        Begin(c, "write", IF c = "stdout" THEN "StdOut" ELSE "StdErr", stream)

Event(d, kind, r) ==
    [driver |-> d, op |-> kind, res |-> r.res, opened |-> r.opened,
     erased |-> Len(r.erased), dropped |-> Len(r.dropped),
     touched |-> r.disk # disk]

\* The result r of a step of the future of driver d of caller c, which
\* moves to t.
Apply(c, d, r, t) ==
    /\ r.failed => faults < MaxFaults
    /\ faults' = IF r.failed THEN faults + 1 ELSE faults
    /\ drivers' = [drivers EXCEPT ![d] = r.drv]
    /\ disk' = r.disk
    /\ op' = [op EXCEPT ![c].tasks[d] = t]
    /\ ev' = Event(d, op[c].kind, r)
    /\ log' = [log EXCEPT ![d] =
                 IF r.opened /\ op[c].kind \in {"init", "reopen"} THEN Clean
                 ELSE IF r.opened \/ r.res # "ok" THEN Dirty
                 ELSE @]
    /\ UNCHANGED <<reader, built, lock, ret, flushRet, started>>

Running(c, d, pc) ==
    /\ op[c].kind # "idle"
    /\ d \in 1..Len(op[c].tasks)
    /\ op[c].tasks[d].pc = pc

\* ContainerLog::init, the future of driver d.
StepInit(c, d) ==
    /\ Running(c, d, "init")
    /\ \E openFails \in BOOLEAN :
         LET r == JsonInit(drivers[d], disk, openFails)
         IN  Apply(c, d, r, Done(op[c].tasks[d], r.res))

\* ContainerLog::reopen, the future of driver d.
StepReopen(c, d) ==
    /\ Running(c, d, "reopen")
    /\ \E syncFails, openFails \in BOOLEAN :
         /\ syncFails => ~openFails
         /\ LET r == JsonReopen(drivers[d], disk, syncFails, openFails)
            IN  /\ (syncFails \/ openFails) => r.failed
                /\ Apply(c, d, r, Done(op[c].tasks[d], r.res))

\* ContainerLog::write, the future of driver d at the head of the loop of
\* JsonLogger::write: read a line, build the entry, count it, reopen when
\* over the limit.
StepRead(c, d) ==
    /\ Running(c, d, "read")
    /\ LET t == op[c].tasks[d]
           n == ReadUntil(t.rest)
       IN  IF n = 0
           THEN Apply(c, d, Outcome("ok", FALSE, drivers[d], disk), Done(t, "ok"))
           ELSE \E ts \in TimestampLens, syncFails, openFails \in BOOLEAN :
                  /\ syncFails => ~openFails
                  /\ LET entry == LogEntry(op[c].pipe, SubSeq(t.rest, 1, n), ts)
                         r == JsonAccount(drivers[d], disk, entry, syncFails, openFails)
                     IN  /\ (syncFails \/ openFails) => r.failed
                         /\ Apply(c, d, r,
                                  IF r.res # "ok" THEN Done(t, r.res)
                                  ELSE [t EXCEPT !.pc = "persist",
                                                 !.rest = SubSeq(t.rest, n + 1, Len(t.rest)),
                                                 !.entry = Some(entry)])

\* The same future at the file write.
StepPersist(c, d) ==
    /\ Running(c, d, "persist")
    /\ \E entryFails, newlineFails \in BOOLEAN :
         /\ entryFails => ~newlineFails
         /\ LET t == op[c].tasks[d]
                r == JsonPersist(drivers[d], disk, Unwrap(t.entry), entryFails, newlineFails)
            IN  /\ (entryFails \/ newlineFails) => r.failed
                /\ Apply(c, d, r,
                         IF r.res # "ok" THEN Done(t, r.res)
                         ELSE [t EXCEPT !.pc = "read", !.entry = None])

\* The last error in the order of the drivers.
RECURSIVE LastErr(_, _)
LastErr(tasks, i) ==
    IF i > Len(tasks) THEN 0
    ELSE LET later == LastErr(tasks, i + 1)
         IN  IF later # 0 THEN later
             ELSE IF tasks[i].res # "ok" THEN i ELSE 0

\* join_all(...).await.into_iter().collect::<Result<Vec<_>>>()?: the first
\* error in the order of the drivers, 0 when there is none.
RECURSIVE FirstErr(_, _)
FirstErr(tasks, i) ==
    IF i > Len(tasks) THEN 0
    ELSE IF tasks[i].res # "ok" THEN i
    ELSE FirstErr(tasks, i + 1)

\* A join that is ready as soon as one future has failed.
JoinedOrFailed(tasks) ==
    \/ \A d \in 1..Len(tasks) : tasks[d].pc = "done"
    \/ \E d \in 1..Len(tasks) : tasks[d].pc = "done" /\ tasks[d].res # "ok"

\* join_all is ready once every future is.
Joined(tasks) == \A d \in 1..Len(tasks) : tasks[d].pc = "done"

\* The operation returns and the caller drops the lock.
End(c) ==
    /\ op[c].kind # "idle"
    /\ Joined(op[c].tasks)
    /\ LET e == FirstErr(op[c].tasks, 1)
       IN  ret' = [caller |-> c, kind |-> op[c].kind,
                   res |-> IF e = 0 THEN "ok" ELSE op[c].tasks[e].res,
                   driver |-> e,
                   results |-> [d \in 1..Len(op[c].tasks) |-> op[c].tasks[d].res]]
    /\ log' = [d \in DOMAIN log |->
                 IF op[c].kind # "write" THEN log[d]
                 ELSE IF log[d].clean /\ op[c].tasks[d].res = "ok"
                         /\ Terminated(op[c].stream)
                 THEN [log[d] EXCEPT
                         !.expect = @ \o CompleteLines(Channel(op[c].pipe),
                                                      op[c].stream)]
                 ELSE Dirty]
    /\ op' = [op EXCEPT ![c] = Idle]
    /\ lock' = None
    /\ ev' = NoEvent
    /\ UNCHANGED <<reader, built, drivers, disk, flushRet, started, faults>>

\* JsonLogger::flush called on driver d while no operation runs.
Flush(d) ==
    /\ built
    /\ d \in Drivers
    /\ LockFree
    /\ started < Budget
    /\ started' = started + 1
    /\ \E writeFails \in BOOLEAN :
         LET r == JsonFlush(drivers[d], disk, writeFails)
         IN  /\ writeFails => r.failed
             /\ r.failed => faults < MaxFaults
             /\ faults' = IF r.failed THEN faults + 1 ELSE faults
             /\ drivers' = [drivers EXCEPT ![d] = r.drv]
             /\ disk' = r.disk
             /\ flushRet' = Some([driver |-> d, res |-> r.res])
             /\ ev' = Event(d, "flush", r)
    /\ UNCHANGED <<reader, built, lock, op, ret, log>>

Next ==
    \/ BeginInit
    \/ BeginReopen
    \/ \E c \in {"stdout", "stderr"} : BeginWrite(c)
    \/ \E c \in Callers, d \in 1..MaxDrivers : StepInit(c, d)
    \/ \E c \in Callers, d \in 1..MaxDrivers : StepReopen(c, d)
    \/ \E c \in Callers, d \in 1..MaxDrivers : StepRead(c, d)
    \/ \E c \in Callers, d \in 1..MaxDrivers : StepPersist(c, d)
    \/ \E c \in Callers : End(c)
    \/ \E d \in 1..MaxDrivers : Flush(d)

Spec == Init /\ [][Next]_vars

\* ------------------------------------------------------------- properties
\* What the current handle of a driver has been given, in order: what it
\* has put in the file and what its buffer still holds.
WrittenOf(drv) == Unwrap(drv.file).flushed \o Unwrap(drv.file).buf

\* items are exactly the entries expect, each followed by a newline.
Shows(items, expect) ==
    /\ Len(items) = 2 * Len(expect)
    /\ \A k \in 1..Len(expect) :
         /\ items[2 * k - 1].kind = "rec"
         /\ items[2 * k - 1].pipe = expect[k].pipe
         /\ items[2 * k - 1].message = expect[k].message
         /\ items[2 * k] = Newline

Unshared(d) == \A e \in Drivers : e # d => drivers[e].path # drivers[d].path

\* C1: on a driver with no size limit, after a successful init followed
\* only by successful writes of newline-terminated lines, what the driver
\* has written is one record per line, in call order and line order, with
\* the channel of its call and the trimmed line as message.
C1_OneRecordPerLine ==
    \A d \in Drivers :
        (lock = None /\ log[d].clean /\ drivers[d].max_log_size = None)
        => /\ IsSome(drivers[d].file)
           /\ Shows(WrittenOf(drivers[d]), log[d].expect)

C1_Witness ==
    \E d \in Drivers :
        /\ lock = None /\ log[d].clean /\ drivers[d].max_log_size = None
        /\ Len(log[d].expect) >= 2
        /\ log[d].expect[1] = [pipe |-> "stdout", message |-> <<"a">>]
        /\ log[d].expect[2].pipe = "stderr"

\* C2: once write has returned success, the records are in the file at the
\* driver's path, with no flush or reopen in between.
C2_VisibleOnReturn ==
    \A d \in Drivers :
        (lock = None /\ log[d].clean /\ Unshared(d))
        => /\ disk[drivers[d].path].exists
           /\ ~disk[drivers[d].path].clobbered
           /\ Shows(disk[drivers[d].path].data, log[d].expect)

\* The results of write, reopen and flush on a driver that has no file.
C3_Results(anyStream) ==
    \A d \in Drivers :
        drivers[d].file = None =>
            /\ \A c \in Callers :
                 (/\ op[c].kind \in {"write", "reopen"}
                  /\ op[c].kind = "write" => (anyStream \/ op[c].stream # <<>>)
                  /\ op[c].tasks[d].pc = "done")
                 => op[c].tasks[d].res = "uninit"
            /\ (flushRet # None /\ Unwrap(flushRet).driver = d)
                 => Unwrap(flushRet).res = "uninit"

Accounted(c, d) ==
    /\ op[c].kind = "write" /\ d \in Drivers
    /\ op[c].tasks[d].pc = "read"
    /\ op'[c].kind = "write" /\ op'[c].tasks[d].pc = "persist"
Persisted(c, d) ==
    /\ op[c].kind = "write" /\ d \in Drivers
    /\ op[c].tasks[d].pc = "persist"
    /\ op'[c].kind = "write" /\ op'[c].tasks[d].pc = "read"

\* What the two steps of one turn of the write loop do on a driver with a
\* size limit.
C4_Step ==
    \A c \in Callers, d \in 1..MaxDrivers :
        /\ (Accounted(c, d) /\ IsSome(drivers[d].file)
                            /\ IsSome(drivers[d].max_log_size))
           => LET e == Unwrap(op'[c].tasks[d].entry)
                  path == drivers[d].path
              IN  IF drivers[d].bytes_written + e.len > Unwrap(drivers[d].max_log_size)
                  THEN /\ drivers'[d].file = Some(NewWriter)
                       /\ disk'[path] = Truncated
                       /\ drivers'[d].bytes_written = 0
                  ELSE /\ drivers'[d].file = drivers[d].file
                       /\ disk' = disk
                       /\ drivers'[d].bytes_written = drivers[d].bytes_written + e.len
        /\ (Persisted(c, d) /\ IsSome(drivers[d].max_log_size))
           => /\ WrittenOf(drivers'[d]) =
                    WrittenOf(drivers[d]) \o <<Unwrap(op[c].tasks[d].entry), Newline>>
              /\ drivers'[d].bytes_written = drivers[d].bytes_written

\* C4: on an initialized driver with threshold M, the line whose record
\* takes the count over M truncates the file once, before its record is
\* written; its record is then the first of the new file and is not counted
\* (the count is 0); a line that keeps the count within M truncates nothing
\* and is counted.
C4_RotateBeforeWrite == [][C4_Step]_vars

\* The record that crossed the threshold, written first in the new file and
\* not counted, after earlier records had been written.
C4_Witness ==
    \E c \in Callers, d \in Drivers :
        /\ op[c].kind = "write" /\ op[c].tasks[d].pc = "read"
        /\ ev.driver = d /\ ev.res = "ok" /\ ~ev.opened
        /\ drivers[d].max_log_size = Some(197)
        /\ drivers[d].bytes_written = 0
        /\ WrittenOf(drivers[d]) # <<>>
        /\ \A k \in 1..Len(WrittenOf(drivers[d])) :
             WrittenOf(drivers[d])[k] =
                 IF k = 1 THEN [kind |-> "rec", pipe |-> "stderr",
                                message |-> <<"a">>, len |-> 99]
                 ELSE Newline

\* C5: an operation of the multiplexer returns once every driver's future
\* is done, succeeds exactly when all of them did, and otherwise returns
\* the error of the first failed driver in the order of the drivers.
C5_FirstErrorInOrder ==
    ret.kind # "none" =>
        /\ Len(ret.results) = N
        /\ \A d \in Drivers : ret.results[d] \in {"ok", "uninit", "io"}
        /\ ret.res = "ok" <=> \A d \in Drivers : ret.results[d] = "ok"
        /\ ret.res # "ok" =>
             /\ ret.driver \in Drivers
             /\ ret.results[ret.driver] = ret.res
             /\ \A d \in 1..(ret.driver - 1) : ret.results[d] = "ok"

C5_Witness ==
    /\ N = 2 /\ ret.kind = "write"
    /\ ret.res = "uninit" /\ ret.driver = 1
    /\ ret.results[2] # "ok"

\* The entries among items, as channel and message.
Shown(items) ==
    LET recs == SelectSeq(items, LAMBDA x : x.kind = "rec")
    IN  [k \in 1..Len(recs) |-> [pipe |-> recs[k].pipe, message |-> recs[k].message]]

IsSuffix(a, b) ==
    Len(a) <= Len(b) /\ SubSeq(b, Len(b) - Len(a) + 1, Len(b)) = a

\* Driver d has recorded the whole stream: what its handle has been given
\* ends with the stream's lines (and remainder), in order; when a size limit
\* made it start the file anew on the way, with the last of them.
Recorded(d, pipe, stream) ==
    stream # <<>> =>
        /\ IsSome(drivers[d].file)
        /\ LET w == Shown(WrittenOf(drivers[d]))
               x == Segments(Channel(pipe), stream)
           IN  IF drivers[d].max_log_size = None THEN IsSuffix(x, w)
               ELSE w # <<>> /\ (IsSuffix(x, w) \/ IsSuffix(w, x))

\* What a successful future of driver d has left when join_all is ready.
Carried(c, d) ==
    IF op[c].kind = "write"
    THEN op[c].tasks[d].rest = <<>> /\ Recorded(d, op[c].pipe, op[c].stream)
    ELSE /\ drivers[d].file = Some(NewWriter)
         /\ disk[drivers[d].path] = Truncated

\* C6: when a driver fails in init, reopen or write, the futures of all
\* other drivers have still run to their end when the operation returns,
\* and what the successful ones did is in place: the file opened anew and
\* empty, or the whole stream recorded.
C6_OthersCarriedOut ==
    \A c \in Callers :
        (/\ op[c].kind # "idle"
         /\ Joined(op[c].tasks)
         /\ \E f \in Drivers : op[c].tasks[f].res \notin {"ok", "pending"})
        => \A d \in Drivers :
             /\ op[c].tasks[d].pc = "done"
             /\ op[c].tasks[d].res = "ok" => Carried(c, d)

\* The first driver failed and the second wrote two lines.
C6_Witness ==
    \E c \in Callers :
        /\ N = 2 /\ op[c].kind = "write" /\ Joined(op[c].tasks)
        /\ LineCount(op[c].stream) = 2
        /\ op[c].tasks[1].res = "uninit" /\ op[c].tasks[2].res = "ok"
        /\ Len(WrittenOf(drivers[2])) = 4

\* C7: one write of the multiplexer makes every initialized driver read
\* the whole stream from its first byte: each driver that succeeds has
\* recorded every line, in order, however the futures interleave.
C7_FanOut ==
    \A c \in Callers :
        (op[c].kind = "write" /\ Joined(op[c].tasks))
        => \A d \in Drivers :
             op[c].tasks[d].res = "ok"
             => /\ op[c].tasks[d].rest = <<>>
                /\ IsSome(drivers[d].file) => Recorded(d, op[c].pipe, op[c].stream)

C7_Witness ==
    \E c \in Callers :
        /\ N = 2 /\ op[c].kind = "write" /\ Joined(op[c].tasks)
        /\ LineCount(op[c].stream) = 2
        /\ \A d \in Drivers :
             /\ op[c].tasks[d].res = "ok"
             /\ drivers[d].max_log_size = None
             /\ Shown(WrittenOf(drivers[d])) = Segments(Channel(op[c].pipe), op[c].stream)

\* C8: init, reopen and write hold the lock from start to return, so at most
\* one of them is in progress; while a write stands between its size check
\* and its file write, no other caller's operation is in progress.
C8_Exclusive ==
    /\ Cardinality({c \in Callers : op[c].kind # "idle"}) <= 1
    /\ \A c \in Callers : op[c].kind # "idle" <=> lock = Some(c)
    /\ \A c \in Callers, d \in Drivers :
         (op[c].kind = "write" /\ op[c].tasks[d].pc = "persist")
         => \A o \in Callers \ {c} : op[o].kind = "idle"

\* A write of stdout between size check and file write, after a reopen.
C8_Witness ==
    \E d \in Drivers :
        /\ op["stdout"].kind = "write" /\ op["stdout"].tasks[d].pc = "persist"
        /\ ev.opened
        /\ ret.kind = "reopen" /\ ret.res = "ok"
        /\ started = MaxOps

\* C9: after every successful init or reopen of a driver, called from
\* outside or from write, the file at its path exists and is empty,
\* whatever it held; a file a driver has opened is never removed.
C9_EmptyAfterOpen ==
    /\ (ev.opened \/ (ev.op \in {"init", "reopen"} /\ ev.res = "ok"))
       => disk[drivers[ev.driver].path] = Truncated
    /\ \A d \in Drivers : IsSome(drivers[d].file) => disk[drivers[d].path].exists
    /\ disk["p1"].exists

\* A reopen that discarded records this driver had put in the file.
C9_Witness ==
    /\ ev.op = "reopen" /\ ev.res = "ok" /\ ev.erased > 0
    /\ disk[drivers[ev.driver].path] = Truncated

\* C10: an entry with max_size = 0 gives a driver with no limit, on which no
\* write opens the file anew; an entry with max_size = M > 0 gives a driver
\* with limit M.
C10_ZeroDisables ==
    /\ \A d \in Drivers :
         drivers[d].max_log_size =
             IF reader[d].max_size = 0 THEN None ELSE Some(reader[d].max_size)
    /\ (ev.op = "write" /\ (ev.opened \/ ev.erased > 0 \/ ev.dropped > 0))
       => reader[ev.driver].max_size > 0

\* More is written to a driver configured with max_size = 0 than any limit.
C10_Witness ==
    \E d \in Drivers :
        /\ reader[d].max_size = 0
        /\ ev.driver = d /\ ev.op = "write"
        /\ drivers[d].bytes_written > 197
        /\ IsSome(drivers[d].file)
        /\ Len(WrittenOf(drivers[d])) >= 6

\* C11: construction gives one driver per entry of the configuration list,
\* in its order, or fails as a whole when an entry has a type that is not
\* known, with no driver at all; right after construction no file has been
\* created, opened or truncated, and every driver is without a file handle
\* and has bytes_written = 0.
C11_AllOrNothing ==
    /\ built <=> \A i \in 1..Len(reader) : reader[i].type \in KnownTypes
    /\ built => /\ Len(drivers) = Len(reader)
                /\ \A i \in 1..Len(reader) : drivers[i].path = reader[i].path
    /\ ~built => /\ drivers = <<>>
                 /\ disk = InitialDisk
    /\ started = 0 =>
         /\ disk = InitialDisk
         /\ \A d \in Drivers : /\ drivers[d].file = None
                                /\ drivers[d].bytes_written = 0

\* A list whose first entry is good and whose second is not.
C11_Witness ==
    /\ Len(reader) = 2
    /\ reader[1].type = "Json" /\ reader[2].type = "NotInSchema"
    /\ ~built /\ drivers = <<>>

\* A step in which a reopen of driver d completes with success: one called
\* from outside, or the one the size check of write calls.
ReopenCompleted(d) ==
    /\ ev'.driver = d /\ ev'.res = "ok"
    /\ \/ ev'.op = "reopen"
       \/ ev'.op = "write" /\ ev'.opened

C12_Step ==
    \A d \in Drivers :
        /\ \/ drivers'[d].bytes_written >= drivers[d].bytes_written
           \/ drivers'[d].bytes_written = 0
        /\ ReopenCompleted(d) => drivers'[d].bytes_written = 0
        /\ drivers'[d].bytes_written < drivers[d].bytes_written
             => ReopenCompleted(d)

\* C12: bytes_written never decreases except by a reset to zero; it is
\* zero after every reopen that completes with success, called from outside
\* or by the size check of write; it is reset at no other moment.
C12_ResetOnEveryReopen == [][C12_Step]_vars

\* C13: a write whose stream ends with bytes that no newline terminates
\* gives no record for those bytes: on a driver with no size limit, after
\* a successful init followed only by successful writes of
\* newline-terminated lines, a successful write has added exactly one
\* record per newline-terminated line of its stream.
C13_NoRecordForRemainder ==
    \A c \in Callers, d \in Drivers :
        (/\ op[c].kind = "write" /\ Joined(op[c].tasks)
         /\ op[c].tasks[d].res = "ok"
         /\ log[d].clean /\ drivers[d].max_log_size = None)
        => /\ IsSome(drivers[d].file)
           /\ Shows(WrittenOf(drivers[d]),
                    log[d].expect \o
                    CompleteLines(Channel(op[c].pipe), op[c].stream))

\* C14: a reopen of an initialized driver puts what the driver's buffer
\* holds in the file before it replaces the handle: when a reopen called
\* from outside has replaced the handle, the handle it replaced held
\* nothing in its buffer.
C14_FlushedBeforeReplace ==
    (ev.op = "reopen" /\ ev.opened) => ev.dropped = 0

\* A step that ends an init or reopen of driver d, called from outside or
\* by the size check of write, with an error.
OpenFailed(d) ==
    /\ ev'.driver = d /\ ev'.res # "ok"
    /\ \/ ev'.op \in {"init", "reopen"}
       \/ /\ ev'.op = "write"
          /\ \E c \in Callers : /\ op[c].kind = "write"
                                 /\ op[c].tasks[d].pc = "read"

C15_Step ==
    \A d \in Drivers :
        /\ IsSome(drivers[d].file) => IsSome(drivers'[d].file)
        /\ (drivers[d].file = None /\ IsSome(drivers'[d].file))
             => (ev'.driver = d /\ ev'.op = "init" /\ ev'.res = "ok")
        /\ (ev'.driver = d /\ ev'.op = "init" /\ ev'.res = "ok" /\ ev' # ev)
             => IsSome(drivers'[d].file)
        /\ OpenFailed(d) => drivers'[d].file = drivers[d].file

\* C15: a driver has no file handle from construction until the first
\* init that succeeds and has one in every state after that; an init or
\* reopen that fails leaves the handle as it was; nothing takes the handle
\* of an initialized driver away.
C15_HandleOnceSet ==
    /\ started = 0 => \A d \in Drivers : drivers[d].file = None
    /\ [][C15_Step]_vars

\* A reopen has failed on a driver whose handle holds records, and the
\* handle is as before.
C15_Witness ==
    /\ ev.op = "reopen" /\ ev.res = "io"
    /\ IsSome(drivers[ev.driver].file)
    /\ Unwrap(drivers[ev.driver].file).buf # <<>>

\* A step of the future of driver d in a fan-out of the multiplexer.
SubOperation(d) ==
    /\ ev' # ev
    /\ ev'.driver = d /\ ev'.op \in {"init", "reopen", "write"}

C16_Step ==
    \A d \in Drivers :
        SubOperation(d) =>
            \A e \in Drivers \ {d} :
                /\ drivers'[e] = drivers[e]
                /\ disk'[drivers[e].path] = disk[drivers[e].path]

\* C16: in a fan-out of the multiplexer, for every configuration that
\* construction accepts, a step of the future of one driver leaves the file
\* handle and the bytes_written of every other driver, and the file at
\* every other driver's path, as they were, however the futures interleave.
C16_OtherDriversUntouched == [][C16_Step]_vars

\* The future of driver d of caller c ends with an error at the head of the
\* write loop (the reopen of the size check failed), or at the file write
\* (no file handle, or a failed write).
FailedAtRead(c, d) ==
    /\ op[c].kind = "write" /\ d \in Drivers
    /\ op[c].tasks[d].pc = "read"
    /\ op'[c].kind = "write" /\ op'[c].tasks[d].pc = "done"
    /\ op'[c].tasks[d].res # "ok"
FailedAtPersist(c, d) ==
    /\ op[c].kind = "write" /\ d \in Drivers
    /\ op[c].tasks[d].pc = "persist"
    /\ op'[c].kind = "write" /\ op'[c].tasks[d].pc = "done"
    /\ op'[c].tasks[d].res # "ok"

\* At the file write the line has been counted already, unless the size
\* check has set the count to 0 on the way.
C17_Step ==
    \A c \in Callers, d \in Drivers :
        /\ FailedAtRead(c, d)
             => drivers'[d].bytes_written = drivers[d].bytes_written
        /\ (FailedAtPersist(c, d) /\ drivers[d].bytes_written # 0)
             => drivers'[d].bytes_written =
                    drivers[d].bytes_written - Unwrap(op[c].tasks[d].entry).len

\* C17: when the processing of a line fails in write (no file handle, a
\* failed reopen of the size check, a failed file write), bytes_written is
\* what it was before that line was processed: the size of a record that
\* was not written is not counted.
C17_FailedLineNotCounted == [][C17_Step]_vars

\* C18: after every write that returns success on a driver with threshold
\* M, bytes_written is at most M, whatever calls came before and however
\* they ended.
C18_WithinThreshold ==
    \A d \in Drivers :
        (/\ lock = None /\ ret.kind = "write" /\ ret.results[d] = "ok"
         /\ IsSome(drivers[d].max_log_size))
        => drivers[d].bytes_written <= Unwrap(drivers[d].max_log_size)

\* The log entries among items.
Records(items) == SelectSeq(items, LAMBDA x : x.kind = "rec")

\* C19: on an initialized driver with threshold M, the sizes of the
\* records the driver has written since its file was last opened anew
\* (newlines not counted) add up to at most M plus the size of the first
\* of them.
C19_FileWithinThreshold ==
    \A d \in Drivers :
        (IsSome(drivers[d].file) /\ IsSome(drivers[d].max_log_size))
        => LET recs == Records(WrittenOf(drivers[d]))
           IN  recs # <<>> =>
                 TotalLen(recs) <= Unwrap(drivers[d].max_log_size) + recs[1].len

\* Two records since the size check opened the file anew, the first not
\* counted: exactly the most the threshold allows.
C19_Witness ==
    \E d \in Drivers :
        /\ lock = None /\ ret.kind = "write" /\ ret.res = "ok"
        /\ IsSome(drivers[d].file)
        /\ drivers[d].max_log_size = Some(98)
        /\ Len(Records(WrittenOf(drivers[d]))) = 2
        /\ Records(WrittenOf(drivers[d]))[1].len = 99
        /\ drivers[d].bytes_written = 98
        /\ TotalLen(Records(WrittenOf(drivers[d]))) = 98 + 99

=============================================================================
